---- MODULE Spec2Model ----
(***************************************************************************)
(* Model of the DOS resource archive reader (data-source-dos.cc) and of    *)
(* the game object collection template (objects.h).                        *)
(*                                                                         *)
(* Byte buffers are sequences of bytes; the byte at C++ offset o is        *)
(* element o+1 of the sequence.  The index table `entries` is a sequence   *)
(* too: the C++ entries[i] is element i+1.                                 *)
(***************************************************************************)
EXTENDS Integers, Sequences, FiniteSets, TLC

VARIABLES
  path,               \* which file DataSourceDOS::path names
  spae,               \* DataSourceDOS::spae: the loaded buffer (a file id)
  entries,            \* DataSourceDOS::entries: the index table
  loadResult,         \* how load() ended ("new" before it is called)
  call,               \* the call whose result the caller is holding
  sprIn,              \* input of a stand-alone sprite decode
  sprOut,             \* its outcome
  objects,            \* Collection::objects (the keys of the map)
  last_object_index,  \* Collection::last_object_index
  free_object_indexes,\* Collection::free_object_indexes
  collOp              \* the last Collection operation and what it did

vars == <<path, spae, entries, loadResult, call, sprIn, sprOut,
          objects, last_object_index, free_object_indexes, collOp>>

dosVars  == <<path, spae, entries, loadResult, call>>
sprVars  == <<sprIn, sprOut>>
collVars == <<objects, last_object_index, free_object_indexes, collOp>>

(***************************************************************************)
(* Bounds of the model.                                                    *)
(***************************************************************************)
FullCount == 4000     \* entry count declared by the complete archives
MaxBody   == 4        \* longest sprite body of a stand-alone decode
MaxDim    == 2        \* largest width and height of a stand-alone decode
MaxIndex  == 3        \* largest index handed to the Collection

(***************************************************************************)
(* Program constants.                                                      *)
(***************************************************************************)
DATA_SERF_ANIMATION_TABLE == 2
DATA_SERF_ARMS            == 1850
HeaderSize                == 10

None == [kind |-> "null"]

(***************************************************************************)
(* Integer encodings.                                                      *)
(***************************************************************************)
LE16(v) == <<v % 256, (v \div 256) % 256>>
LE32(v) == <<v % 256, (v \div 256) % 256, (v \div 65536) % 256,
             (v \div 16777216) % 256>>
BE32(v) == <<(v \div 16777216) % 256, (v \div 65536) % 256,
             (v \div 256) % 256, v % 256>>

\* Buffer::pop<T> at read offset o of buffer b (the caller has checked that
\* the bytes are there).  The 32-bit values of the model's files stay below
\* 2^31.
PopU8(b, o)    == b[o + 1]
PopI8(b, o)    == IF b[o + 1] >= 128 THEN b[o + 1] - 256 ELSE b[o + 1]
PopU16LE(b, o) == b[o + 1] + 256 * b[o + 2]
PopI16LE(b, o) == IF PopU16LE(b, o) >= 32768 THEN PopU16LE(b, o) - 65536
                  ELSE PopU16LE(b, o)
PopU32LE(b, o) == b[o + 1] + 256 * b[o + 2] + 65536 * b[o + 3]
                  + 16777216 * b[o + 4]
PopU32BE(b, o) == 16777216 * b[o + 1] + 65536 * b[o + 2] + 256 * b[o + 3]
                  + b[o + 4]

\* Buffer::readable<T>(): n more bytes can be read at offset o.
Readable(b, o, n) == o + n <= Len(b)

RECURSIVE Repeat(_, _)
Repeat(s, n) == IF n <= 0 THEN <<>> ELSE s \o Repeat(s, n - 1)

RECURSIVE Flatten(_)
Flatten(ss) == IF ss = <<>> THEN <<>> ELSE Head(ss) \o Flatten(Tail(ss))

(***************************************************************************)
(* The archive files the model is run on.  Each is a real byte image: a    *)
(* little-endian entry count, that many (size, offset) records, then the   *)
(* bytes of the resources.                                                 *)
(***************************************************************************)

\* A 10-byte sprite header (delta_x, delta_y, width, height, offset_x,
\* offset_y) followed by the body.
SpriteBytes(dx, w, h, body) ==
  <<dx, 0>> \o LE16(w) \o LE16(h) \o <<0, 0, 0, 0>> \o body

\* A 256-entry palette of 3-byte colours; entry k is
\* (r, g, b) = (2km, 4km, 6km) mod 256, so that with m = 1 entry 5 is
\* (10, 20, 30).
PalBytes(m) ==
  <<>> \o [p \in 1..768 |-> (2 * (((p - 1) % 3) + 1) * ((p - 1) \div 3) * m) % 256]

Obj(i, b) == [idx |-> i, bytes |-> b]

\* The resources every complete archive holds besides the animation table
\* and the main palette.
CommonObjs == <<
  Obj(1,    SpriteBytes(0, 1, 1, <<5>>)),            \* art_landscape, solid
  Obj(4,    SpriteBytes(0, 2, 1, <<1, 1>>)),         \* serf_shadow, overlay
  Obj(5,    SpriteBytes(255, 2, 1, <<5, 7>>)),       \* solid, well formed
  Obj(6,    SpriteBytes(0, 2, 2, <<5, 7>>)),         \* solid, size mismatch
  Obj(7,    <<0, 0, 1, 0>>),                         \* shorter than a header
  Obj(60,   SpriteBytes(0, 2, 1, <<1, 1>>)),         \* mask, well formed
  Obj(61,   SpriteBytes(0, 1, 1, <<2, 0>>)),         \* mask, runs sum to 2
  Obj(62,   SpriteBytes(0, 1, 1, <<1>>)),            \* mask, fill count cut
  Obj(321,  SpriteBytes(0, 3, 1, <<2, 1, 5>>)),      \* transparent
  Obj(322,  SpriteBytes(0, 2, 1, <<0, 2, 5>>)),      \* transparent, cut
  Obj(750,  SpriteBytes(0, 2, 1, <<1, 1, 5>>)),      \* font
  Obj(751,  <<1, 2, 3>>),                            \* font, short
  Obj(810,  SpriteBytes(0, 1, 1, <<0, 1, 7>>)),      \* font_shadow
  Obj(1250, SpriteBytes(0, 1, 1, <<0, 1, 2>>)),      \* map_object
  Obj(1378, SpriteBytes(0, 2, 1, <<0, 2, 1, 2>>)),   \* flag frame 0
  Obj(1382, SpriteBytes(0, 2, 1, <<0, 2, 1, 5>>)),   \* flag frame 0, pair
  Obj(1379, SpriteBytes(0, 2, 1, <<0, 2, 1, 2>>)),   \* flag frame 1
  Obj(1850, SpriteBytes(0, 2, 1, <<1, 1, 7>>)),      \* arms of torso 0
  Obj(1852, <<9, 9>>),                               \* arms of torso 2, short
  Obj(2500, SpriteBytes(0, 2, 1, <<0, 2, 1, 2>>)),   \* serf_torso 0
  Obj(2501, SpriteBytes(0, 2, 1, <<1, 1, 5>>)),      \* serf_torso 1
  Obj(2502, SpriteBytes(0, 1, 1, <<0, 1, 5>>)),      \* serf_torso 2
  Obj(3150, SpriteBytes(0, 1, 1, <<0, 1, 1>>)),      \* serf_head
  Obj(3997, PalBytes(3)),                            \* landscape palette
  Obj(3999, SpriteBytes(0, 1, 1, <<0, 1, 0>>)) >>    \* cursor

\* Entries left undefined (size and offset zero) in the complete archives.
CommonHoles == {8, 63, 324, 752, 1383, 1851, 2503, 3998}

\* Entries whose range lies beyond the end of the file.
CommonBeyond == {323}

AnimBytes(prefix, rest) == BE32(prefix) \o rest

Desc(n, objs, holes, beyond, fill, cut) ==
  [n |-> n, objs |-> objs, holes |-> holes, beyond |-> beyond,
   fill |-> fill, cut |-> cut]

Full(anim, pal, holes, beyond, fill) ==
  Desc(FullCount, pal \o anim \o CommonObjs, CommonHoles \cup holes,
       CommonBeyond \cup beyond, fill, -1)

GoodPal == << Obj(3, PalBytes(1)) >>
GoodAnim == << Obj(2, AnimBytes(8, <<1, 2, 3, 4>>)) >>

ArchiveIds == 1..12

ArchiveDesc(id) ==
  CASE id = 1  -> Full(GoodAnim, GoodPal, {}, {}, 7)
    \* prefix = number of bytes after the prefix
    [] id = 2  -> Full(<< Obj(2, AnimBytes(4, <<1, 2, 3, 4>>)) >>, GoodPal,
                       {}, {}, 7)
    [] id = 3  -> Full(<< Obj(2, AnimBytes(9, <<1, 2, 3, 4>>)) >>, GoodPal,
                       {}, {}, 7)
    [] id = 4  -> Full(<<>>, GoodPal, {2}, {}, 7)          \* no table
    [] id = 5  -> Full(<< Obj(2, <<0, 2>>) >>, GoodPal, {}, {}, 7)
    [] id = 6  -> Full(<<>>, GoodPal, {}, {2}, 7)          \* table beyond
    [] id = 7  -> Full(GoodAnim, << Obj(3, SubSeq(PalBytes(1), 1, 767)) >>,
                       {}, {}, 7)
    [] id = 8  -> Full(GoodAnim, GoodPal, {}, {}, 11)
    \* declared count larger than the records the file holds
    [] id = 9  -> Desc(FullCount, GoodPal \o GoodAnim, {}, {}, 7, 4 + 8 * 3 + 5)
    [] id = 10 -> Desc(2, << Obj(1, <<1, 2, 3>>) >>, {}, {}, 7, 4 + 8 + 3)
    [] id = 11 -> Desc(1, <<>>, {}, {}, 7, 2)
    \* complete but with fewer entries than fixup() touches
    [] id = 12 -> Desc(3, GoodAnim, {}, {}, 7, -1)

RECURSIVE PoolLen(_, _)
PoolLen(objs, j) == IF j = 0 THEN 0
                    ELSE PoolLen(objs, j - 1) + Len(objs[j].bytes)

\* The byte image of the archive described by d.
MkArchive(d) ==
  LET hdr    == 4 + 8 * d.n
      nobj   == Len(d.objs)
      offs   == <<>> \o [j \in 1..nobj |-> hdr + PoolLen(d.objs, j - 1)]
      total  == hdr + PoolLen(d.objs, nobj)
      pos(k) == LET S == {j \in 1..nobj : d.objs[j].idx = k}
                IN  IF S = {} THEN 0 ELSE CHOOSE j \in S : TRUE
      rec    == <<>> \o [k \in 1..d.n |->
                  IF k \in d.holes THEN <<0, 0>>
                  ELSE IF k \in d.beyond THEN <<12, total + 1>>
                  ELSE IF pos(k) # 0
                    THEN <<Len(d.objs[pos(k)].bytes), offs[pos(k)]>>
                  ELSE <<k % 5, k % d.fill>>]
      head   == [p \in 1..hdr |->
                  IF p <= 4 THEN LE32(d.n)[p]
                  ELSE LET k == ((p - 5) \div 8) + 1
                           f == (p - 5) % 8
                       IN  IF f < 4 THEN LE32(rec[k][1])[f + 1]
                           ELSE LE32(rec[k][2])[f - 3]]
      pool   == Flatten([j \in 1..nobj |-> d.objs[j].bytes])
      all    == head \o pool
  IN  IF d.cut < 0 THEN all ELSE SubSeq(all, 1, d.cut)

\* The content of each file, by id (a sequence indexed by the id).  Id 0 is
\* a path at which check() finds no file.
Files == <<>> \o [id \in ArchiveIds |-> MkArchive(ArchiveDesc(id))]

NoFile == 0
Paths  == ArchiveIds \cup {NoFile}

\* The bytes held by the buffer spae points to.
BufBytes(b) == IF b = NoFile THEN <<>> ELSE Files[b]

(***************************************************************************)
(* The index table.                                                        *)
(***************************************************************************)
DataEntry(sz, off) == [size |-> sz, offset |-> off]

\* entries[i] and entries.size()
Entry(e, i) == e[i + 1]
InTable(e, i) == i >= 0 /\ i < Len(e)

Thrown == [kind |-> "throw"]

\* Buffer::get_subbuffer(offset, size): the range, or a failure when it
\* reaches beyond the end of the buffer.
get_subbuffer(buf, offset, size) ==
  IF offset + size > Len(buf) THEN Thrown
  ELSE [kind |-> "buffer", offset |-> offset,
        bytes |-> SubSeq(buf, offset + 1, offset + size)]

\* DataSourceDOS::get_object (and the same without the test for an
\* undefined entry).
get_object_nocheck(e, buf, index) ==
  IF index >= Len(e) THEN None
  ELSE get_subbuffer(buf, Entry(e, index).offset, Entry(e, index).size)

get_object(e, buf, index) ==
  IF index >= Len(e) THEN None
  ELSE IF Entry(e, index).offset = 0 THEN None
  ELSE get_subbuffer(buf, Entry(e, index).offset, Entry(e, index).size)

\* The table-reading loop of load(): the entry count, the reserved entry 0,
\* then one entry per (size, offset) record.  A pop past the end of the
\* buffer throws; the entries pushed before it stay in the table.  Record i
\* (1-based) is pushed when both of its pops succeed, that is when the
\* buffer has 4 + 8i bytes.
ReadEntries(buf) ==
  IF ~Readable(buf, 0, 4) THEN [threw |-> TRUE, entries |-> <<>>]
  ELSE LET entry_count == PopU32LE(buf, 0)
           avail       == (Len(buf) - 4) \div 8
           got         == IF entry_count <= avail THEN entry_count ELSE avail
       IN  [threw   |-> got < entry_count,
            entries |-> << DataEntry(0, 0) >> \o
                        [i \in 1..got |->
                          DataEntry(PopU32LE(buf, 4 + 8 * (i - 1)),
                                    PopU32LE(buf, 8 + 8 * (i - 1)))]]

\* entries[t] = entries[s].  Outside the table the behaviour is undefined:
\* a store is lost and a load yields the arbitrary entry g.
Assign(e, t, s, g) ==
  IF ~InTable(e, t) THEN e
  ELSE [e EXCEPT ![t + 1] = IF InTable(e, s) THEN e[s + 1] ELSE g]

\* The body of the first loop for one i, for (j = 1; j < 6; j++), and the
\* same running one j too far.
RECURSIVE FixInnerWide(_, _, _, _)
FixInnerWide(e, i, j, g) ==
  IF j >= 7 THEN e
  ELSE FixInnerWide(Assign(e, 3450 + 6 * i + j, 3450 + 6 * i, g), i, j + 1, g)

RECURSIVE FixInner(_, _, _, _)
FixInner(e, i, j, g) ==
  IF j >= 6 THEN e
  ELSE FixInner(Assign(e, 3450 + 6 * i + j, 3450 + 6 * i, g), i, j + 1, g)

\* for (i = 0; i < 48; i++) for (j = 1; j < 6; j++): the iterations
\* lo..hi of the outer loop, in increasing order of i (the range is halved
\* to keep the evaluation shallow).
RECURSIVE FixOuter(_, _, _, _)
FixOuter(e, lo, hi, g) ==
  IF lo = hi THEN FixInner(e, lo, 1, g)
  ELSE LET mid   == (lo + hi) \div 2
           first == FixOuter(e, lo, mid, g)
       IN  IF Len(first) = Len(e) THEN FixOuter(first, mid + 1, hi, g)
           ELSE first

FixLoop1(e, g) == FixOuter(e, 0, 47, g)

\* for (i = 0; i < 3; i++)
RECURSIVE FixLoop2From(_, _, _)
FixLoop2From(e, i, g) ==
  IF i >= 3 THEN e
  ELSE FixLoop2From(Assign(e, 3765 + i, 3762 + i, g), i + 1, g)

FixLoop2(e, g) == FixLoop2From(e, 0, g)

\* for (i = 0; i < 6; i++)
RECURSIVE FixLoop3From(_, _, _)
FixLoop3From(e, i, g) ==
  IF i >= 6 THEN e
  ELSE FixLoop3From(Assign(Assign(e, 1363 + i, 1352, g), 1613 + i, 1602, g),
                    i + 1, g)

FixLoop3(e, g) == FixLoop3From(e, 0, g)

\* DataSourceDOS::fixup
fixup(e, g) == FixLoop3(FixLoop2(FixLoop1(e, g), g), g)

\* The largest index fixup() touches: below it the table is too short and
\* fixup() reads and writes outside the vector.
FixupTop == 3767
FixupDefined(e) == Len(e) > FixupTop

\* What an out-of-range read of the vector may yield.
GarbageEntries == {DataEntry(0, 0), DataEntry(1, 1)}

\* DataSourceLegacy::load_animation_table: the table bytes are handed on,
\* their content is not interpreted here.
load_animation_table(anim) == anim.kind = "buffer"

\* The animation table check at the end of load(): the outcome of load()
\* from there on.  A null table is dereferenced (undefined behaviour).
AnimOutcomes(e, buf) ==
  LET anim == get_object(e, buf, DATA_SERF_ANIMATION_TABLE)
  IN  IF anim.kind = "null" THEN {"crashed", "false", "true"}
      ELSE IF anim.kind = "throw" THEN {"threw"}
      ELSE LET size == Len(anim.bytes)
           IN  IF ~Readable(anim.bytes, 0, 4) THEN {"threw"}
               ELSE IF size # PopU32BE(anim.bytes, 0) THEN {"false"}
               ELSE IF load_animation_table(
                         [anim EXCEPT !.bytes = SubSeq(anim.bytes, 5, size)])
                      THEN {"true"} ELSE {"false"}

NoCall == [op |-> "none"]

\* DataSourceDOS::load, called once on a constructed data source.
Load ==
  /\ loadResult = "new"
  /\ call' = NoCall
  /\ UNCHANGED <<path, sprVars, collVars>>
  /\ IF path = NoFile
       THEN /\ loadResult' = "false"
            /\ UNCHANGED <<spae, entries>>
       ELSE LET buf == Files[path]
                r   == ReadEntries(buf)
            IN  /\ spae' = path
                /\ IF r.threw
                     THEN /\ entries' = r.entries
                          /\ loadResult' = "threw"
                     ELSE IF FixupDefined(r.entries)
                       THEN /\ entries' = fixup(r.entries, DataEntry(0, 0))
                            /\ loadResult' \in AnimOutcomes(entries', buf)
                       ELSE \/ /\ entries' = r.entries
                               /\ loadResult' = "crashed"
                            \/ \E g \in GarbageEntries :
                                 /\ entries' = fixup(r.entries, g)
                                 /\ loadResult' \in AnimOutcomes(entries', buf)

InitDos ==
  /\ path \in Paths
  /\ spae = NoFile
  /\ entries = <<>>
  /\ loadResult = "new"
  /\ call = NoCall

(***************************************************************************)
(* The resource catalog.                                                   *)
(***************************************************************************)
Res(i, p, t) == [index |-> i, dos_palette |-> p, sprite_type |-> t]

\* dos_resources[], indexed by Data::Resource (row r is element r + 1).
dos_resources == <<
  Res(0,    0,    "unknown"),      \*  0 none
  Res(1,    3997, "solid"),        \*  1 art_landscape
  Res(2,    0,    "unknown"),      \*  2 animation
  Res(4,    3,    "overlay"),      \*  3 serf_shadow
  Res(5,    3,    "solid"),        \*  4 dotted_lines
  Res(15,   3997, "solid"),        \*  5 art_flag
  Res(25,   3,    "solid"),        \*  6 art_box
  Res(40,   3998, "solid"),        \*  7 credits_bg
  Res(41,   3998, "solid"),        \*  8 logo
  Res(42,   3,    "solid"),        \*  9 symbol
  Res(60,   3,    "mask"),         \* 10 map_mask_up
  Res(141,  3,    "mask"),         \* 11 map_mask_down
  Res(230,  3,    "mask"),         \* 12 path_mask
  Res(260,  3,    "solid"),        \* 13 map_ground
  Res(300,  3,    "solid"),        \* 14 path_ground
  Res(321,  3,    "transparent"),  \* 15 game_object
  Res(600,  3,    "solid"),        \* 16 frame_top
  Res(610,  3,    "transparent"),  \* 17 map_border
  Res(630,  3,    "transparent"),  \* 18 map_waves
  Res(660,  3,    "solid"),        \* 19 frame_popup
  Res(670,  3,    "solid"),        \* 20 indicator
  Res(750,  3,    "transparent"),  \* 21 font
  Res(810,  3,    "transparent"),  \* 22 font_shadow
  Res(870,  3,    "solid"),        \* 23 icon
  Res(1250, 3,    "transparent"),  \* 24 map_object
  Res(1500, 3,    "overlay"),      \* 25 map_shadow
  Res(1750, 3,    "solid"),        \* 26 panel_button
  Res(1780, 3,    "solid"),        \* 27 frame_bottom
  Res(2500, 3,    "transparent"),  \* 28 serf_torso
  Res(3150, 3,    "transparent"),  \* 29 serf_head
  Res(3880, 3,    "solid"),        \* 30 frame_split
  Res(3900, 0,    "unknown"),      \* 31 sound
  Res(3990, 0,    "unknown"),      \* 32 music
  Res(3999, 3,    "transparent"),  \* 33 cursor
  Res(3,    0,    "unknown") >>    \* 34 palette

Resources == 0..(Len(dos_resources) - 1)

AssetFont       == 21
AssetFontShadow == 22
AssetMapObject  == 24
AssetSerfTorso  == 28

\* Data::get_resource_count: the number of sprites of each kind.
ResourceCounts == <<
  0, 1, 1, 1, 7, 7, 14, 1, 1, 16, 81, 81, 27, 33, 10, 279, 4, 10, 16, 4, 8,
  44, 44, 318, 194, 194, 25, 26, 541, 630, 3, 90, 7, 1, 1 >>

get_resource_count(res) == ResourceCounts[res + 1]

(***************************************************************************)
(* Sprites.  A pixel is four bytes of the data: blue, green, red, alpha.   *)
(***************************************************************************)
SizeofColorDOS == 3

\* palette[i] for a palette of 256 colours.  An index of 256 or more reads
\* outside the palette (undefined behaviour): it yields the arbitrary
\* colour ub.
ColorAt(palette, i, ub) ==
  IF i < 256
    THEN [r |-> palette[SizeofColorDOS * i + 1],
          g |-> palette[SizeofColorDOS * i + 2],
          b |-> palette[SizeofColorDOS * i + 3]]
    ELSE ub

\* What a read outside the palette may yield.
UBColors == {[r |-> 0, g |-> 0, b |-> 0], [r |-> 1, g |-> 2, b |-> 3]}

\* SpriteBaseDOS::SpriteBaseDOS: the 10-byte header.
SpriteBaseDOS(d) ==
  IF Len(d) < HeaderSize THEN Thrown
  ELSE [kind     |-> "sprite",
        delta_x  |-> PopI8(d, 0),
        delta_y  |-> PopI8(d, 1),
        width    |-> PopU16LE(d, 2),
        height   |-> PopU16LE(d, 4),
        offset_x |-> PopI16LE(d, 6),
        offset_y |-> PopI16LE(d, 8),
        data     |-> <<>>]

Loop(ok, data) == [ok |-> ok, data |-> data]

OpaqueBGR(c) == <<c.b, c.g, c.r, 255>>

\* One filled pixel of the transparent decoder (and the same with the
\* colour pushed red first).
FillPixelRGB(c) == <<c.r, c.g, c.b, 255>>
FillPixel(c) == OpaqueBGR(c)

\* SpriteDosSolid::SpriteDosSolid
SpriteDosSolid(d, palette) ==
  LET base == SpriteBaseDOS(d)
  IN  IF base.kind = "throw" THEN Thrown
      ELSE IF Len(d) # base.width * base.height + HeaderSize THEN Thrown
      ELSE [base EXCEPT !.data =
              Flatten([p \in 1..(Len(d) - HeaderSize) |->
                        OpaqueBGR(ColorAt(palette,
                                          PopU8(d, HeaderSize + p - 1),
                                          [r |-> 0, g |-> 0, b |-> 0]))])]

\* The while loop of SpriteDosTransparent from read offset pos on.
RECURSIVE TransparentLoop(_, _, _, _, _)
TransparentLoop(d, pos, palette, color, ub) ==
  IF ~Readable(d, pos, 1) THEN Loop(TRUE, <<>>)
  ELSE IF ~Readable(d, pos + 1, 1) THEN Loop(FALSE, <<>>)
  ELSE LET drop == PopU8(d, pos)
           fill == PopU8(d, pos + 1)
       IN  IF ~Readable(d, pos + 2, fill) THEN Loop(FALSE, <<>>)
           ELSE LET rest == TransparentLoop(d, pos + 2 + fill, palette,
                                            color, ub)
                IN  Loop(rest.ok,
                         Repeat(<<0, 0, 0, 0>>, drop)
                         \o Flatten([i \in 1..fill |->
                              FillPixel(ColorAt(palette,
                                                PopU8(d, pos + 1 + i) + color,
                                                ub))])
                         \o rest.data)

\* SpriteDosTransparent::SpriteDosTransparent
SpriteDosTransparent(d, palette, color, ub) ==
  LET base == SpriteBaseDOS(d)
      loop == TransparentLoop(d, HeaderSize, palette, color, ub)
  IN  IF base.kind = "throw" THEN Thrown
      ELSE IF ~loop.ok THEN Thrown
      ELSE [base EXCEPT !.data = loop.data]

\* The while loop of SpriteDosOverlay.
RECURSIVE OverlayLoop(_, _, _, _)
OverlayLoop(d, pos, palette, value) ==
  IF ~Readable(d, pos, 1) THEN Loop(TRUE, <<>>)
  ELSE IF ~Readable(d, pos + 1, 1) THEN Loop(FALSE, <<>>)
  ELSE LET drop == PopU8(d, pos)
           fill == PopU8(d, pos + 1)
           c    == ColorAt(palette, value, [r |-> 0, g |-> 0, b |-> 0])
           rest == OverlayLoop(d, pos + 2, palette, value)
       IN  Loop(rest.ok,
                Repeat(<<0, 0, 0, 0>>, drop)
                \o Repeat(<<c.b, c.g, c.r, value>>, fill)
                \o rest.data)

\* SpriteDosOverlay::SpriteDosOverlay
SpriteDosOverlay(d, palette, value) ==
  LET base == SpriteBaseDOS(d)
      loop == OverlayLoop(d, HeaderSize, palette, value)
  IN  IF base.kind = "throw" THEN Thrown
      ELSE IF ~loop.ok THEN Thrown
      ELSE [base EXCEPT !.data = loop.data]

\* The while loop of SpriteDosMask.
RECURSIVE MaskLoop(_, _)
MaskLoop(d, pos) ==
  IF ~Readable(d, pos, 1) THEN Loop(TRUE, <<>>)
  ELSE IF ~Readable(d, pos + 1, 1) THEN Loop(FALSE, <<>>)
  ELSE LET drop == PopU8(d, pos)
           fill == PopU8(d, pos + 1)
           rest == MaskLoop(d, pos + 2)
       IN  Loop(rest.ok,
                Repeat(<<0, 0, 0, 0>>, drop)
                \o Repeat(<<255, 255, 255, 255>>, fill)
                \o rest.data)

\* SpriteDosMask::SpriteDosMask
SpriteDosMask(d) ==
  LET base == SpriteBaseDOS(d)
      loop == MaskLoop(d, HeaderSize)
  IN  IF base.kind = "throw" THEN Thrown
      ELSE IF ~loop.ok THEN Thrown
      ELSE [base EXCEPT !.data = loop.data]

\* The number of pixels of a decoded sprite and its i-th pixel (from 0).
NPixels(s)  == Len(s.data) \div 4
Pixel(s, i) == SubSeq(s.data, 4 * i + 1, 4 * i + 4)

(***************************************************************************)
(* The compositor (DataSource::separate_sprites, Sprite::stick).           *)
(***************************************************************************)
MaskImage(m, i) == [mask |-> m, image |-> i]

\* separate_sprites(s1, s2): the image is s1, the mask is opaque white
\* where the pixels of s1 and s2 differ.  Sprites of different dimensions
\* are an error.
separate_sprites(s1, s2) ==
  IF s1.width # s2.width \/ s1.height # s2.height THEN Thrown
  ELSE [kind  |-> "pair",
        mask  |-> [s1 EXCEPT !.data =
                    Flatten([i \in 1..NPixels(s1) |->
                      IF i <= NPixels(s2) /\ Pixel(s1, i - 1) = Pixel(s2, i - 1)
                        THEN <<0, 0, 0, 0>>
                        ELSE <<255, 255, 255, 255>>])],
        image |-> s1]

\* base->stick(overlay, 0, 0): the pixels of overlay that are not
\* transparent replace those of base.
stick(base, overlay) ==
  [base EXCEPT !.data =
    Flatten([i \in 1..NPixels(base) |->
      LET x == IF base.width = 0 THEN 0 ELSE (i - 1) % base.width
          y == IF base.width = 0 THEN 0 ELSE (i - 1) \div base.width
          o == y * overlay.width + x
      IN  IF /\ x < overlay.width
             /\ y < overlay.height
             /\ o < NPixels(overlay)
             /\ Pixel(overlay, o)[4] > 0
            THEN Pixel(overlay, o)
            ELSE Pixel(base, i - 1)])]

(***************************************************************************)
(* The asset facade.                                                       *)
(***************************************************************************)
\* DataSourceDOS::get_dos_palette
get_dos_palette(e, buf, index) ==
  LET data == get_object(e, buf, index)
  IN  IF data.kind = "buffer" /\ Len(data.bytes) # SizeofColorDOS * 256
        THEN None
        ELSE data

\* How a call ends: it returns a (mask, image) tuple, an exception leaves
\* it, or the process dies.
Returned(mi) == [status |-> "returned", mask |-> mi.mask, image |-> mi.image]
Threw        == [status |-> "threw",    mask |-> None,    image |-> None]
Crashed      == [status |-> "crashed",  mask |-> None,    image |-> None]
Unavailable  == Returned(MaskImage(None, None))

\* The serf torso branch of get_sprite_parts: the ways it can end.
TorsoParts(e, buf, dos_res, palette, index, ub) ==
  LET data   == get_object(e, buf, dos_res.index + index)
      torso  == SpriteDosTransparent(data.bytes, palette, 64, ub)
      torso2 == SpriteDosTransparent(data.bytes, palette, 72, ub)
      mi     == separate_sprites(torso, torso2)
      adata  == get_object(e, buf, DATA_SERF_ARMS + index)
      arms   == SpriteDosTransparent(adata.bytes, palette, 0, ub)
  IN  IF data.kind = "throw" THEN {Threw}
      ELSE IF data.kind = "null" THEN {Unavailable}
      ELSE IF torso.kind = "throw" \/ torso2.kind = "throw" THEN {Threw}
      ELSE IF mi.kind = "throw" THEN {Threw}
      ELSE IF adata.kind = "throw" THEN {Threw}
      \* a null buffer is handed to the decoder, which dereferences it
      ELSE IF adata.kind = "null" THEN {Crashed, Threw, Returned(mi)}
      ELSE IF arms.kind = "throw" THEN {Threw}
      ELSE {Returned(MaskImage(mi.mask, stick(mi.image, arms)))}

\* The flag branch (map objects 128..143).
FlagParts(e, buf, dos_res, palette, index, ub) ==
  LET flag_frame == (index - 128) % 4
      data1 == get_object(e, buf, dos_res.index + 128 + flag_frame)
      s1    == SpriteDosTransparent(data1.bytes, palette, 0, ub)
      data2 == get_object(e, buf, dos_res.index + 128 + 4 + flag_frame)
      s2    == SpriteDosTransparent(data2.bytes, palette, 0, ub)
      mi    == separate_sprites(s1, s2)
  IN  IF data1.kind = "throw" THEN {Threw}
      ELSE IF data1.kind = "null" THEN {Unavailable}
      ELSE IF s1.kind = "throw" THEN {Threw}
      ELSE IF data2.kind = "throw" THEN {Threw}
      ELSE IF data2.kind = "null" THEN {Unavailable}
      ELSE IF s2.kind = "throw" THEN {Threw}
      ELSE IF mi.kind = "throw" THEN {Threw}
      ELSE {Returned(mi)}

\* The tuple built for a font or font shadow sprite (and the same with the
\* sprite in the second component).
FontTupleSwapped(sprite) == MaskImage(None, sprite)
FontTuple(sprite) == MaskImage(sprite, None)

\* The font and font shadow branch.
FontParts(e, buf, dos_res, palette, index, ub) ==
  LET data   == get_object(e, buf, dos_res.index + index)
      sprite == SpriteDosTransparent(data.bytes, palette, 0, ub)
  IN  IF data.kind = "throw" THEN {Threw}
      ELSE IF data.kind = "null" THEN {Unavailable}
      ELSE IF sprite.kind = "throw" THEN {Threw}
      ELSE {Returned(FontTuple(sprite))}

\* The tuple built at the end of get_sprite_parts.
PlainTuple(sprite) == MaskImage(None, sprite)

\* The common tail of get_sprite_parts: one sprite of the catalog's type.
PlainParts(e, buf, dos_res, palette, index, ub) ==
  LET data   == get_object(e, buf, dos_res.index + index)
      t      == dos_res.sprite_type
      sprite == CASE t = "solid"       -> SpriteDosSolid(data.bytes, palette)
                  [] t = "transparent" -> SpriteDosTransparent(data.bytes,
                                                               palette, 0, ub)
                  [] t = "overlay"     -> SpriteDosOverlay(data.bytes,
                                                           palette, 128)
                  [] t = "mask"        -> SpriteDosMask(data.bytes)
                  [] OTHER             -> None
  IN  IF data.kind = "throw" THEN {Threw}
      ELSE IF data.kind = "null" THEN {Unavailable}
      ELSE IF sprite.kind = "throw" THEN {Threw}
      ELSE IF sprite.kind = "null" THEN {Unavailable}
      ELSE {Returned(PlainTuple(sprite))}

\* DataSourceDOS::get_sprite_parts: the set of ways the call can end (one
\* way unless the call runs into undefined behaviour).
get_sprite_parts(e, buf, res, index, ub) ==
  IF index >= get_resource_count(res) THEN {Unavailable}
  ELSE LET dos_res == dos_resources[res + 1]
           pal     == get_dos_palette(e, buf, dos_res.dos_palette)
       IN  IF pal.kind = "throw" THEN {Threw}
           ELSE IF pal.kind = "null" THEN {Unavailable}
           ELSE IF res = AssetSerfTorso
             THEN TorsoParts(e, buf, dos_res, pal.bytes, index, ub)
           ELSE IF res = AssetMapObject /\ index >= 128 /\ index <= 143
             THEN FlagParts(e, buf, dos_res, pal.bytes, index, ub)
           ELSE IF res = AssetFont \/ res = AssetFontShadow
             THEN FontParts(e, buf, dos_res, pal.bytes, index, ub)
           ELSE PlainParts(e, buf, dos_res, pal.bytes, index, ub)

(***************************************************************************)
(* The data source as a state machine: load() once, then requests, one at  *)
(* a time; the caller takes each result before the next call.              *)
(***************************************************************************)
\* The indexes the requests of the model ask for.
SpriteIndexes == {0, 1, 2, 3, 128, 129}
ObjectIndexes == {0, 1, 2, 3, 5, 7, 8, 322, 323, 1363, 3451, 3765,
                  FullCount, FullCount + 1, FullCount + 7}

\* The process has not died.
Alive == /\ loadResult # "crashed"
         /\ IF call.op = "none" THEN TRUE ELSE call.out.status # "crashed"

GetSpriteParts ==
  /\ Alive
  /\ call.op = "none"
  /\ \E res \in Resources, index \in SpriteIndexes, ub \in UBColors :
       \E out \in get_sprite_parts(entries, BufBytes(spae), res, index, ub) :
         call' = [op |-> "get_sprite_parts", res |-> res, index |-> index,
                  out |-> out]
  /\ UNCHANGED <<path, spae, entries, loadResult, sprVars, collVars>>

GetObject ==
  /\ Alive
  /\ call.op = "none"
  /\ \E index \in ObjectIndexes :
       call' = [op |-> "get_object", index |-> index,
                out |-> LET r == get_object(entries, BufBytes(spae), index)
                        IN  [status |-> IF r.kind = "throw" THEN "threw"
                                        ELSE "returned",
                             value  |-> r]]
  /\ UNCHANGED <<path, spae, entries, loadResult, sprVars, collVars>>

\* The caller takes the result (or catches the exception).
TakeResult ==
  /\ Alive
  /\ call.op # "none"
  /\ call' = NoCall
  /\ UNCHANGED <<path, spae, entries, loadResult, sprVars, collVars>>

IdleSpr  == sprIn = [kind |-> "none"] /\ sprOut = [kind |-> "none"]
IdleColl == /\ objects = {}
            /\ last_object_index = 0
            /\ free_object_indexes = {}
            /\ collOp = [op |-> "none"]

Init == InitDos /\ IdleSpr /\ IdleColl
Next == Load \/ GetSpriteParts \/ GetObject \/ TakeResult
Spec == Init /\ [][Next]_vars

IdleDos == /\ path = NoFile
           /\ spae = NoFile
           /\ entries = <<>>
           /\ loadResult = "new"
           /\ call = NoCall

(***************************************************************************)
(* The sprite decoders on their own: every header and body within the      *)
(* bounds, decoded by each of the four decoders.                           *)
(***************************************************************************)
ByteVals == {0, 1, 2, 5}
Bodies   == UNION {[1..n -> ByteVals] : n \in 0..MaxBody}
Colors   == {0, 251}         \* colour offsets of the transparent decoder
PalIds   == {1, 3}
Palettes == << PalBytes(1), PalBytes(2), PalBytes(3) >>

SpriteInputs ==
  {[data |-> SpriteBytes(0, w, h, b), color |-> c, pal |-> m] :
     w \in 0..MaxDim, h \in 0..MaxDim, b \in Bodies, c \in Colors,
     m \in PalIds}
  \cup {[data |-> <<0, 0, 1, 0, 1, 0, 0, 0, 0>>, color |-> 0, pal |-> 1]}

InitDecode ==
  /\ sprIn \in SpriteInputs
  /\ sprOut = [kind |-> "none"]
  /\ IdleDos
  /\ IdleColl

DecodeSolid ==
  /\ sprOut.kind = "none"
  /\ sprOut' = [kind |-> "solid",
                s |-> SpriteDosSolid(sprIn.data, Palettes[sprIn.pal])]
  /\ UNCHANGED <<sprIn, dosVars, collVars>>

DecodeTransparent ==
  /\ sprOut.kind = "none"
  /\ \E ub \in UBColors :
       sprOut' = [kind |-> "transparent",
                  s |-> SpriteDosTransparent(sprIn.data, Palettes[sprIn.pal],
                                             sprIn.color, ub)]
  /\ UNCHANGED <<sprIn, dosVars, collVars>>

DecodeOverlay ==
  /\ sprOut.kind = "none"
  /\ sprOut' = [kind |-> "overlay",
                s |-> SpriteDosOverlay(sprIn.data, Palettes[sprIn.pal], 128)]
  /\ UNCHANGED <<sprIn, dosVars, collVars>>

DecodeMask ==
  /\ sprOut.kind = "none"
  /\ sprOut' = [kind |-> "mask", s |-> SpriteDosMask(sprIn.data)]
  /\ UNCHANGED <<sprIn, dosVars, collVars>>

NextDecode == DecodeSolid \/ DecodeTransparent \/ DecodeOverlay \/ DecodeMask
SpecDecode == InitDecode /\ [][NextDecode]_vars

(***************************************************************************)
(* Collection<T> (objects.h).  The map is modelled by its set of keys: the *)
(* object stored under a key carries that key as its index.  The counter   *)
(* stays far below UINT_MAX, so allocate() never returns NULL.             *)
(***************************************************************************)
Indexes == 0..MaxIndex

\* The indexes get_or_insert() adds to the free set when index lies at or
\* beyond last_object_index: the loop inserts `index` once per skipped i.
SkippedAsFree(last, index) == {index : i \in last..(index - 1)}

\* Collection::allocate
Allocate ==
  /\ IF free_object_indexes # {}
       THEN LET new_index == CHOOSE m \in free_object_indexes :
                               \A n \in free_object_indexes : m <= n
            IN  /\ free_object_indexes' = free_object_indexes \ {new_index}
                /\ last_object_index' = last_object_index
                /\ collOp' = [op |-> "allocate", index |-> new_index,
                              overwrote |-> new_index \in objects]
                /\ objects' = objects \cup {new_index}
       ELSE /\ last_object_index <= MaxIndex
            /\ free_object_indexes' = free_object_indexes
            /\ last_object_index' = last_object_index + 1
            /\ collOp' = [op |-> "allocate", index |-> last_object_index,
                          overwrote |-> last_object_index \in objects]
            /\ objects' = objects \cup {last_object_index}
  /\ UNCHANGED <<dosVars, sprVars>>

\* Collection::get_or_insert
GetOrInsert ==
  /\ \E index \in Indexes :
       LET existed == index \in objects
           free1   == IF existed THEN free_object_indexes
                      ELSE free_object_indexes \ {index}
       IN  /\ objects' = objects \cup {index}
           /\ IF last_object_index <= index
                THEN /\ free_object_indexes' =
                          free1 \cup SkippedAsFree(last_object_index, index)
                     /\ last_object_index' = index + 1
                ELSE /\ free_object_indexes' = free1
                     /\ last_object_index' = last_object_index
           /\ collOp' = [op |-> "get_or_insert", index |-> index,
                         overwrote |-> FALSE]
  /\ UNCHANGED <<dosVars, sprVars>>

\* Collection::erase
Erase ==
  /\ \E index \in Indexes :
       /\ collOp' = [op |-> "erase", index |-> index, overwrote |-> FALSE]
       /\ IF index \notin objects
            THEN UNCHANGED <<objects, last_object_index, free_object_indexes>>
            ELSE /\ objects' = objects \ {index}
                 /\ IF index = last_object_index
                      THEN /\ last_object_index' = last_object_index - 1
                           /\ free_object_indexes' = free_object_indexes
                      ELSE /\ last_object_index' = last_object_index
                           /\ free_object_indexes' =
                                free_object_indexes \cup {index}
  /\ UNCHANGED <<dosVars, sprVars>>

InitColl == IdleColl /\ IdleDos /\ IdleSpr
NextColl == Allocate \/ GetOrInsert \/ Erase
SpecColl == InitColl /\ [][NextColl]_vars

(***************************************************************************)
(* Properties.                                                             *)
(***************************************************************************)
IsSpriteCall == call.op = "get_sprite_parts"

\* The catalog row, palette and raw range of the request the caller holds.
CallRow     == dos_resources[call.res + 1]
CallPalette == get_dos_palette(entries, BufBytes(spae), CallRow.dos_palette)
CallData    == get_object(entries, BufBytes(spae), CallRow.index + call.index)
CallServed  == /\ IsSpriteCall
               /\ call.index < get_resource_count(call.res)
               /\ CallPalette.kind = "buffer"
CallIsComposite ==
  \/ call.res = AssetSerfTorso
  \/ call.res = AssetMapObject /\ call.index >= 128 /\ call.index <= 143
CallIsFont == call.res \in {AssetFont, AssetFontShadow}

\* The decoder of a plain (non-composite) request raises a decode error:
\* the range is shorter than the header, or the sprite is Solid and its
\* size is not width * height + 10.
PlainDecodeError ==
  /\ CallServed
  /\ ~CallIsComposite
  /\ CallRow.sprite_type # "unknown"
  /\ CallData.kind = "buffer"
  /\ \/ Len(CallData.bytes) < 10
     \/ /\ CallRow.sprite_type = "solid"
        /\ ~CallIsFont
        /\ Len(CallData.bytes) #
             PopU16LE(CallData.bytes, 2) * PopU16LE(CallData.bytes, 4) + 10

\* C1: when the sprite decoder raises a decode error while get_sprite_parts
\* serves a request, the call returns the Unavailable result (no mask, no
\* image) and the error does not reach the caller.
C1_DecodeErrorIsUnavailable ==
  PlainDecodeError =>
    /\ call.out.status = "returned"
    /\ call.out.mask = None
    /\ call.out.image = None

\* The entry get_object was asked for, when it is in the table.
ObjEntry == Entry(entries, call.index)
ObjAbsent == call.index >= Len(entries) \/ ObjEntry.offset = 0
ObjRangeReturned ==
  /\ call.out.status = "returned"
  /\ call.out.value.kind = "buffer"
  /\ call.out.value.offset = ObjEntry.offset
  /\ Len(call.out.value.bytes) = ObjEntry.size
  /\ \A k \in 1..ObjEntry.size :
       call.out.value.bytes[k] = BufBytes(spae)[ObjEntry.offset + k]

RawEntry(k) ==
  IF k = 0 THEN DataEntry(0, 0)
  ELSE DataEntry(PopU32LE(BufBytes(spae), 4 + 8 * (k - 1)),
                 PopU32LE(BufBytes(spae), 8 + 8 * (k - 1)))

\* load() read the whole table and went on to fixup(), and the table holds
\* every entry fixup() names.
FixupRan ==
  /\ loadResult # "new"
  /\ spae # NoFile
  /\ Len(BufBytes(spae)) >= 4
  /\ Len(entries) = PopU32LE(BufBytes(spae), 0) + 1
  /\ Len(entries) > 3767

FixupTargets ==
  {3450 + 6 * i + j : i \in 0..47, j \in 1..5}
  \cup {3765 + i : i \in 0..2}
  \cup {1363 + i : i \in 0..5}
  \cup {1613 + i : i \in 0..5}

\* C3: after fixup(), entries[3450+6i+j] = entries[3450+6i] for i in 0..47
\* and j in 1..5, entries[3765+i] = entries[3762+i] for i in 0..2,
\* entries[1363+i] = entries[1352] and entries[1613+i] = entries[1602] for
\* i in 0..5; the source entries and every entry outside the target ranges
\* keep the value read from the file.
C3_Fixup ==
  FixupRan =>
    /\ \A i \in 0..47 : \A j \in 1..5 :
         Entry(entries, 3450 + 6 * i + j) = Entry(entries, 3450 + 6 * i)
    /\ \A i \in 0..2 : Entry(entries, 3765 + i) = Entry(entries, 3762 + i)
    /\ \A i \in 0..5 : /\ Entry(entries, 1363 + i) = Entry(entries, 1352)
                       /\ Entry(entries, 1613 + i) = Entry(entries, 1602)
    /\ \A k \in 0..(Len(entries) - 1) :
         k \notin FixupTargets => Entry(entries, k) = RawEntry(k)

C3_Witness ==
  /\ FixupRan
  /\ Entry(entries, 3451) # RawEntry(3451)
  /\ Entry(entries, 3766) # RawEntry(3766)
  /\ Entry(entries, 1363) # RawEntry(1363)
  /\ Entry(entries, 3450).offset # 0

\* The file's header declares more entries than the file holds.
TruncatedTable ==
  /\ path # NoFile
  /\ Len(Files[path]) >= 4
  /\ Len(Files[path]) < 4 + 8 * PopU32LE(Files[path], 0)

\* C4: when the header declares entry_count = N and the buffer is shorter
\* than 4 + 8N bytes, load() returns failure and the entry table holds no
\* entry a lookup can resolve.
C4_TruncatedLoadFails ==
  (loadResult # "new" /\ TruncatedTable) =>
    /\ loadResult = "false"
    /\ \A i \in 0..(Len(entries) - 1) : Entry(entries, i).offset = 0

\* The animation table resource, as load() resolves it.
AnimTable == get_object(entries, BufBytes(spae), DATA_SERF_ANIMATION_TABLE)
AnimChecked ==
  /\ loadResult \in {"true", "false", "threw"}
  /\ FixupRan
  /\ AnimTable.kind = "buffer"
  /\ Len(AnimTable.bytes) >= 4

\* C5: load() fails for every animation table whose first 4 bytes, read
\* big-endian, differ from the number of bytes that follow them.
C5_AnimPrefixIsRemaining ==
  (AnimChecked /\ PopU32BE(AnimTable.bytes, 0) # Len(AnimTable.bytes) - 4)
    => loadResult = "false"

Decoded == sprOut.kind # "none" /\ sprOut.s.kind = "sprite"

\* C6: every sprite decode that completes without a decode error produces
\* exactly width * height pixels.
C6_PixelCount ==
  Decoded => NPixels(sprOut.s) = sprOut.s.width * sprOut.s.height

\* The (drop, fill, indexes) groups of a well-formed run-length body.
RECURSIVE Groups(_)
Groups(body) ==
  IF Len(body) < 2 THEN <<>>
  ELSE << [drop |-> body[1], idx |-> SubSeq(body, 3, 2 + body[2])] >>
       \o Groups(SubSeq(body, 3 + body[2], Len(body)))

\* The number of pixels of the groups before group n.
RECURSIVE PixelsBefore(_, _)
PixelsBefore(gs, n) ==
  IF n <= 1 THEN 0
  ELSE PixelsBefore(gs, n - 1) + gs[n - 1].drop + Len(gs[n - 1].idx)

\* Entry k of palette m, from the way the palettes are built.
PaletteEntry(m, k) ==
  [r |-> (2 * k * m) % 256, g |-> (4 * k * m) % 256, b |-> (6 * k * m) % 256]

SprBody == SubSeq(sprIn.data, 11, Len(sprIn.data))

\* C7: for every body of (drop, fill, indexes) groups the transparent
\* decoder emits, per group, `drop` all-zero pixels and then `fill` pixels,
\* each palette[index byte + colour offset] in blue, green, red order with
\* alpha 255; the body [2, 1, 5] with offset 0 and palette entry 5 =
\* (10, 20, 30) gives [transparent, transparent, (30, 20, 10, 255)].
C7_TransparentPixels ==
  (sprOut.kind = "transparent" /\ sprOut.s.kind = "sprite") =>
    LET gs == Groups(SprBody)
        s  == sprOut.s
    IN  /\ NPixels(s) = PixelsBefore(gs, Len(gs) + 1)
        /\ Len(s.data) = 4 * NPixels(s)
        /\ \A n \in 1..Len(gs) :
             /\ \A k \in 0..(gs[n].drop - 1) :
                  Pixel(s, PixelsBefore(gs, n) + k) = <<0, 0, 0, 0>>
             /\ \A k \in 1..Len(gs[n].idx) :
                  LET px == Pixel(s, PixelsBefore(gs, n) + gs[n].drop + k - 1)
                      pi == gs[n].idx[k] + sprIn.color
                      c  == PaletteEntry(sprIn.pal, pi)
                  IN  /\ px[4] = 255
                      /\ pi < 256 => px = <<c.b, c.g, c.r, 255>>
        /\ (SprBody = <<2, 1, 5>> /\ sprIn.color = 0 /\ sprIn.pal = 1) =>
             s.data = <<0, 0, 0, 0, 0, 0, 0, 0, 30, 20, 10, 255>>

C7_Witness ==
  /\ sprOut.kind = "transparent"
  /\ sprOut.s.kind = "sprite"
  /\ SprBody = <<2, 1, 5>>
  /\ sprIn.color = 0
  /\ sprIn.pal = 1
  /\ PaletteEntry(1, 5) = [r |-> 10, g |-> 20, b |-> 30]

\* A call that returned a sprite in at least one slot.
CallSucceeded ==
  /\ IsSpriteCall
  /\ call.out.status = "returned"
  /\ (call.out.mask # None \/ call.out.image # None)

OnlyImage == call.out.mask = None /\ call.out.image # None
OnlyMask  == call.out.mask # None /\ call.out.image = None

\* C8 as stated: in the result of a successful call, font and font-shadow
\* kinds fill only the image slot; plain kinds whose encoding is Solid,
\* Transparent or Overlay fill only the image slot; kinds whose encoding is
\* Mask fill only the mask slot.
C8_SlotsByEncoding ==
  (CallSucceeded /\ ~CallIsComposite) =>
    IF CallIsFont THEN OnlyImage
    ELSE IF CallRow.sprite_type = "mask" THEN OnlyMask
    ELSE OnlyImage

\* C8 as amended: in the result of a successful call, font and font-shadow
\* kinds fill only the mask slot (the first component) and leave the image
\* slot empty; every other kind that is not a serf-torso or flag-frame
\* composite fills only the image slot (the second component), whatever its
\* catalog encoding, Mask included.
C8_Slots ==
  (CallSucceeded /\ ~CallIsComposite) =>
    IF CallIsFont THEN OnlyMask ELSE OnlyImage

C8_Witness ==
  /\ CallSucceeded
  /\ CallIsFont
  /\ call.out.mask.kind = "sprite"
  /\ NPixels(call.out.mask) = 2

\* The arms entry of a torso request is absent or does not decode.
ArmsData == get_object(entries, BufBytes(spae), DATA_SERF_ARMS + call.index)
TorsoWithoutArms ==
  /\ CallServed
  /\ call.res = AssetSerfTorso
  /\ CallData.kind = "buffer"
  /\ SpriteDosTransparent(CallData.bytes, CallPalette.bytes, 64,
                          [r |-> 0, g |-> 0, b |-> 0]).kind = "sprite"
  /\ \/ ArmsData.kind = "null"
     \/ ArmsData.kind = "buffer" /\ Len(ArmsData.bytes) < 10

\* C9: a serf-torso request whose torso entry and palette resolve still
\* returns the torso (mask, image) when the arms entry is absent or fails
\* to decode.
C9_ArmsFailureTolerated ==
  TorsoWithoutArms =>
    /\ call.out.status = "returned"
    /\ call.out.image # None
    /\ call.out.mask # None

\* C10: the free indexes are disjoint from the indexes of the live objects,
\* and allocate() never returns an index a live object holds.
C10_FreeDisjointFromLive ==
  /\ objects \cap free_object_indexes = {}
  /\ collOp.op = "allocate" => ~collOp.overwrote
====
